---- MODULE Spec2Model ----
(***************************************************************************)
(* Model of vfx.py, the video frame extraction tool: main, process_folder, *)
(* process_file, extract_frames and extract_frames_fallback.               *)
(*                                                                         *)
(* The external tools are the environment: every ffprobe call answers with *)
(* any value of ProbeResults, every ffmpeg call ends with any exit status  *)
(* of ExitCodes, every prompt is answered with any value of Responses.     *)
(* ffmpeg and ffprobe are taken to be installed (check_ffmpeg passes).     *)
(* The switches -R, -S and -I are left out: they choose how the listing is *)
(* obtained and where the tools' console output goes, and decide no        *)
(* branch that changes the state modelled here.                            *)
(*                                                                         *)
(* Durations, intervals and timestamps are exact rationals [num, den];     *)
(* the program computes them in floating point.                            *)
(***************************************************************************)
EXTENDS Integers, Sequences, FiniteSets

(* ------------------------------ bounds -------------------------------- *)

\* At most MaxFail of the per-timestamp decode invocations of one file fail.
MaxFail == 1

\* Up to MaxExisting of the folders foo_frames, foo_frames_1, ... exist at start.
MaxExisting == 2

(* ------------------------- program constants -------------------------- *)

\* parser.add_argument('-N', type=int, default=16)
DefaultN == 16

\* parser.add_argument('-T', type=int, default=0)
DefaultT == 0

\* the dimension ffmpeg computes itself: scale={width}:-1, scale=-1:{height}
Auto == -1

\* counter = 1, the first numeric suffix tried
FirstCounter == 1

(* ------------------------------ inputs -------------------------------- *)

NValues == {0, 5, 16}
TValues == {0, 3}
Widths == {640}
Heights == {480}
Durations == {0, 10}
ExitCodes == {0, 1}
Responses == {"y", "n", "a"}

\* stdout of ffprobe: a number, or text float() cannot parse
ProbeResults ==
    {[numeric |-> FALSE, value |-> 0]}
        \cup {[numeric |-> TRUE, value |-> d] : d \in Durations}

File(stem, ext) == [stem |-> stem, ext |-> ext]

\* what os.listdir / os.walk yields for the source folder
Listings ==
    { << File("notes", ".txt"), File("foo", ".mp4"), File("foo", ".mkv") >> }

Option(sw, v) == [sw |-> sw, v |-> v]

Switch(sw) == { {}, {Option(sw, 1)} }
Valued(sw, values) == { {} } \cup { {Option(sw, v)} : v \in values }

\* the command line: the set of switches given, each with its value
CommandLines ==
    { n \cup t \cup x \cup y \cup p \cup d \cup h :
        n \in Valued("-N", NValues), t \in Valued("-T", TValues),
        x \in Valued("-X", Widths), y \in Valued("-Y", Heights),
        p \in Switch("-P"), d \in Switch("-D"), h \in Switch("-H") }

Given(line, sw) == \E o \in line : o.sw = sw

\* argparse: the value given, or the default of add_argument
ValueOf(line, sw, default) ==
    IF Given(line, sw) THEN (CHOOSE o \in line : o.sw = sw).v ELSE default

\* parser.parse_args()
ParseArgs(line) ==
    [N |-> ValueOf(line, "-N", DefaultN), T |-> ValueOf(line, "-T", DefaultT),
     X |-> ValueOf(line, "-X", 0), Y |-> ValueOf(line, "-Y", 0),
     P |-> Given(line, "-P"), D |-> Given(line, "-D"), help |-> Given(line, "-H")]

(* ------------------------------ paths --------------------------------- *)

\* os.path.dirname(video_file): the folder the video lies in
Dirname == [stem |-> "", kind |-> "dir", n |-> 0]

\* base_name + '_frames'  (n = 0)  and  f"{output_dir}_{counter}"  (n = counter)
FramesDir(stem, n) == [stem |-> stem, kind |-> "_frames", n |-> n]

\* video_file.endswith(('.mp4', '.mov', '.avi', '.mkv'))
IsVideo(f) == f.ext \in {".mp4", ".mov", ".avi", ".mkv"}

RECURSIVE UniqueFolderLoop(_, _, _, _)
\* while os.path.exists(unique_folder_name): ... counter += 1
UniqueFolderLoop(exists, stem, name, counter) ==
    IF name \in exists
        THEN UniqueFolderLoop(exists, stem, FramesDir(stem, counter), counter + 1)
        ELSE name

\* a single test instead of the loop
UniqueFolderNameIf(exists, stem) ==
    IF FramesDir(stem, 0) \in exists
        THEN FramesDir(stem, FirstCounter)
        ELSE FramesDir(stem, 0)

UniqueFolderName(exists, stem) ==
    UniqueFolderLoop(exists, stem, FramesDir(stem, 0), FirstCounter)

\* the same_dir branch of process_file
OutputDir(exists, f, same_dir) ==
    IF same_dir THEN Dirname ELSE UniqueFolderName(exists, f.stem)

(* ---------------------------- arithmetic ------------------------------ *)

Rat(n, d) == [num |-> n, den |-> d]
Zero == Rat(0, 1)

\* a/b = c/d, for positive denominators
RatEq(a, b) == a.num * b.den = b.num * a.den
RatLt(a, b) == a.num * b.den < b.num * a.den
RatSub(a, b) == Rat(a.num * b.den - b.num * a.den, a.den * b.den)

\* interval = duration / frame_count
Interval(duration, frame_count) == Rat(duration, frame_count)

\* timestamps counted from one interval in
TimestampFromOne(k, interval) == Rat((k + 1) * interval.num, interval.den)

\* timestamp = i * interval
Timestamp(k, interval) == Rat(k * interval.num, interval.den)

\* 0-based numbering
OutputIndexZeroBased(k) == k

\* f"{base_name}_{i+1:03d}.jpg"
OutputIndex(k) == k + 1

(* ----------------------------- filters -------------------------------- *)

Filter(name, a, b) == [name |-> name, a |-> a, b |-> b]

\* the if / elif chain of extract_frames
ScaleFast(width, height) ==
    IF width > 0 /\ height > 0 THEN << Filter("scale", width, height) >>
    ELSE IF width > 0 THEN << Filter("scale", width, Auto) >>
    ELSE IF height > 0 THEN << Filter("scale", Auto, height) >>
    ELSE << >>

\* the chain with the two one-sided branches exchanged
ScaleFallbackSwapped(width, height) ==
    IF width > 0 /\ height > 0 THEN << Filter("scale", width, height) >>
    ELSE IF width > 0 THEN << Filter("scale", Auto, width) >>
    ELSE IF height > 0 THEN << Filter("scale", height, Auto) >>
    ELSE << >>

\* the if / elif chain of extract_frames_fallback
ScaleFallback(width, height) ==
    IF width > 0 /\ height > 0 THEN << Filter("scale", width, height) >>
    ELSE IF width > 0 THEN << Filter("scale", width, Auto) >>
    ELSE IF height > 0 THEN << Filter("scale", Auto, height) >>
    ELSE << >>

\* f'fps=1/{x}': a is the numerator of x, b its denominator
FastFilters(x, width, height) ==
    << Filter("fps", x.num, x.den) >> \o ScaleFast(width, height)

\* f"select='gte(t\\,{timestamp})',setpts=PTS-STARTPTS"
FallbackFilters(timestamp, width, height) ==
    << Filter("select", timestamp.num, timestamp.den), Filter("setpts", 0, 0) >>
        \o ScaleFallback(width, height)

\* ffmpeg -i video_file -vf vf_args -pix_fmt yuv420p -q:v 2 <base_name>_%03d.jpg
\* (out = 0 stands for the %03d pattern, vframes = 0 for no -vframes option)
FastCommand(x, width, height) ==
    [vf |-> FastFilters(x, width, height), vframes |-> 0,
     pix_fmt |-> "yuv420p", out |-> 0]

\* ffmpeg -i video_file -vf vf_args -vframes 1 -q:v 2 <base_name>_<i+1>.jpg
FallbackCommand(k, interval, width, height) ==
    [vf |-> FallbackFilters(Timestamp(k, interval), width, height), vframes |-> 1,
     pix_fmt |-> "", out |-> OutputIndex(k)]

\* every exit status raises
RaisesAlways(returncode) == returncode = returncode

\* subprocess.run(..., check=True) raises CalledProcessError
RaisesCalledProcessError(returncode) == returncode # 0

(* ------------------------------ state --------------------------------- *)

VARIABLES
    pc,           \* where the program is
    argv,         \* the command line, until parse_args has read it
    args,         \* the command line, parsed
    folder,       \* the listing of the source folder
    queue,        \* the files process_folder has still to hand to process_file
    fs,           \* the directories that exist
    output_dir,   \* process_file / extract_frames: output_dir
    duration,     \* the duration last probed for the current file
    interval,     \* duration / frame_count
    i,            \* extract_frames_fallback: the loop variable
    invocations,  \* the ffmpeg commands run for the current file, with exit status
    nFallback,    \* calls of extract_frames_fallback for the current file
    frames,       \* indices of the frame files the fallback has written
    fault         \* the exception that ended the program, if any

vars == << pc, argv, args, folder, queue, fs, output_dir, duration, interval, i,
           invocations, nFallback, frames, fault >>

NoDir == [stem |-> "", kind |-> "", n |-> 0]

InitialDirs ==
    { {Dirname} \cup { FramesDir("foo", n) : n \in 0 .. k - 1 } : k \in 0 .. MaxExisting }

Init ==
    /\ pc = "main"
    /\ argv \in CommandLines
    /\ args = ParseArgs({})
    /\ folder \in Listings
    /\ queue = << >>
    /\ fs \in InitialDirs
    /\ output_dir = NoDir
    /\ duration = 0
    /\ interval = Zero
    /\ i = 0
    /\ invocations = << >>
    /\ nFallback = 0
    /\ frames = {}
    /\ fault = "none"

Locals == << output_dir, duration, interval, i, invocations, nFallback, frames >>

ResetLocals ==
    /\ output_dir' = NoDir
    /\ duration' = 0
    /\ interval' = Zero
    /\ i' = 0
    /\ invocations' = << >>
    /\ nFallback' = 0
    /\ frames' = {}

\* if args.N != 16 and args.T != 0
BothGiven(a) == a.N # DefaultN /\ a.T # DefaultT

\* main: help, the -N / -T test, then process_folder. The isinstance test
\* that follows never fires: argparse has made both values integers.
Main ==
    /\ pc = "main"
    /\ args' = ParseArgs(argv)
    /\ argv' = {}
    /\ IF args'.help THEN pc' = "done" /\ queue' = queue
       ELSE IF BothGiven(args') THEN pc' = "rejected" /\ queue' = queue
       ELSE pc' = "folder" /\ queue' = folder
    /\ UNCHANGED << folder, fs, fault >>
    /\ UNCHANGED Locals

\* process_folder: the listing is exhausted
ProcessFolderDone ==
    /\ pc = "folder"
    /\ queue = << >>
    /\ pc' = "done"
    /\ UNCHANGED << argv, args, folder, queue, fs, fault >>
    /\ UNCHANGED Locals

\* process_file on a name that does not end in a video extension: nothing
SkipFile ==
    /\ pc = "folder"
    /\ queue # << >>
    /\ ~IsVideo(Head(queue))
    /\ queue' = Tail(queue)
    /\ UNCHANGED << pc, argv, args, folder, fs, fault >>
    /\ UNCHANGED Locals

\* process_file on a video: the prompt, then the choice of output_dir
ProcessFile ==
    /\ pc = "folder"
    /\ queue # << >>
    /\ IsVideo(Head(queue))
    /\ \E response \in (IF args.P THEN Responses ELSE {"y"}) :
        IF response = "n" THEN pc' = "returned" /\ output_dir' = output_dir
        ELSE IF response = "a" THEN pc' = "aborted" /\ output_dir' = output_dir
        ELSE /\ pc' = "extract"
             /\ output_dir' = OutputDir(fs, Head(queue), args.D)
    /\ UNCHANGED << argv, args, folder, queue, fs, fault >>
    /\ UNCHANGED << duration, interval, i, invocations, nFallback, frames >>

\* extract_frames: os.makedirs, then the branch on time_interval
ExtractFrames ==
    /\ pc = "extract"
    /\ fs' = fs \cup {output_dir}
    /\ IF args.T > 0
        THEN pc' = "fast_run" /\ interval' = Rat(args.T, 1)
        ELSE pc' = "fast_probe" /\ interval' = interval
    /\ UNCHANGED << argv, args, folder, queue, fault >>
    /\ UNCHANGED << output_dir, duration, i, invocations, nFallback, frames >>

\* extract_frames: ffprobe, float(result.stdout), duration / frame_count
FastProbe ==
    /\ pc = "fast_probe"
    /\ \E result \in ProbeResults :
        IF ~result.numeric
            THEN /\ pc' = "crashed" /\ fault' = "ValueError"
                 /\ UNCHANGED << duration, interval >>
        ELSE IF args.N = 0
            THEN /\ pc' = "crashed" /\ fault' = "ZeroDivisionError"
                 /\ duration' = result.value /\ interval' = interval
        ELSE /\ pc' = "fast_run" /\ fault' = fault
             /\ duration' = result.value
             /\ interval' = Interval(result.value, args.N)
    /\ UNCHANGED << argv, args, folder, queue, fs >>
    /\ UNCHANGED << output_dir, i, invocations, nFallback, frames >>

\* extract_frames: the single decode invocation, and the except clause
FastRun ==
    /\ pc = "fast_run"
    /\ \E returncode \in ExitCodes :
        /\ invocations' = Append(invocations,
              [cmd |-> FastCommand(interval, args.X, args.Y),
               returncode |-> returncode])
        /\ IF RaisesCalledProcessError(returncode)
            THEN pc' = "fb_probe" /\ nFallback' = nFallback + 1
            ELSE pc' = "returned" /\ nFallback' = nFallback
    /\ UNCHANGED << argv, args, folder, queue, fs, fault >>
    /\ UNCHANGED << output_dir, duration, interval, i, frames >>

\* extract_frames_fallback: os.makedirs, ffprobe, duration / frame_count
FallbackProbe ==
    /\ pc = "fb_probe"
    /\ fs' = fs \cup {output_dir}
    /\ \E result \in ProbeResults :
        IF ~result.numeric
            THEN /\ pc' = "crashed" /\ fault' = "ValueError"
                 /\ UNCHANGED << duration, interval >>
        ELSE IF args.N = 0
            THEN /\ pc' = "crashed" /\ fault' = "ZeroDivisionError"
                 /\ duration' = result.value /\ interval' = interval
        ELSE /\ pc' = (IF args.N > 0 THEN "fb_loop" ELSE "returned")
             /\ fault' = fault
             /\ duration' = result.value
             /\ interval' = Interval(result.value, args.N)
    /\ i' = 0
    /\ UNCHANGED << argv, args, folder, queue >>
    /\ UNCHANGED << output_dir, invocations, nFallback, frames >>

Failures(runs) == Cardinality({ k \in 1 .. Len(runs) :
                                 runs[k].cmd.vframes = 1 /\ runs[k].returncode # 0 })

\* extract_frames_fallback: one pass of  for i in range(frame_count)
FallbackStep ==
    /\ pc = "fb_loop"
    /\ \E returncode \in ExitCodes :
        /\ returncode # 0 => Failures(invocations) < MaxFail
        /\ invocations' = Append(invocations,
              [cmd |-> FallbackCommand(i, interval, args.X, args.Y),
               returncode |-> returncode])
        /\ frames' = IF returncode = 0 THEN frames \cup {OutputIndex(i)} ELSE frames
    /\ i' = i + 1
    /\ pc' = IF i + 1 < args.N THEN "fb_loop" ELSE "returned"
    /\ UNCHANGED << argv, args, folder, queue, fs, fault >>
    /\ UNCHANGED << output_dir, duration, interval, nFallback >>

\* process_file returns to the loop of process_folder
Return ==
    /\ pc = "returned"
    /\ pc' = "folder"
    /\ queue' = Tail(queue)
    /\ ResetLocals
    /\ UNCHANGED << argv, args, folder, fs, fault >>

Next ==
    \/ Main
    \/ ProcessFolderDone
    \/ SkipFile
    \/ ProcessFile
    \/ ExtractFrames
    \/ FastProbe
    \/ FastRun
    \/ FallbackProbe
    \/ FallbackStep
    \/ Return

Spec == Init /\ [][Next]_vars

(* ------------------------------ claims -------------------------------- *)

IsFast(run) == run.cmd.vframes = 0
IsFallback(run) == run.cmd.vframes = 1

\* the fast-path and the per-timestamp invocations of the current file
FastRuns == { k \in 1 .. Len(invocations) : IsFast(invocations[k]) }
FallbackRuns == SelectSeq(invocations, IsFallback)

\* the timestamp of the select filter of a per-timestamp invocation
TimestampOf(run) == Rat(run.cmd.vf[1].a, run.cmd.vf[1].b)

\* extract_frames_fallback has run to its end for the current file
FallbackDone == pc = "returned" /\ nFallback = 1

CeilDiv(a, b) == (a + b - 1) \div b

\* C1: the fallback runs only after the single fast-path invocation ended
\* with a non-zero exit status, and then exactly once; the fast path is
\* invoked at most once per file, before every per-timestamp invocation.
C1_FallbackOnlyAfterFastFailure ==
    LET fast == FastRuns IN
    /\ nFallback <= 1
    /\ Cardinality(fast) <= 1
    /\ nFallback = 1 <=> (fast # {} /\ invocations[1].returncode # 0)
    /\ pc \in {"fb_probe", "fb_loop"} => nFallback = 1
    /\ \A k \in 1 .. Len(invocations) :
          IsFallback(invocations[k]) => nFallback = 1 /\ k > 1 /\ fast = {1}

C1_Witness ==
    /\ FallbackDone
    /\ Len(FallbackRuns) = args.N
    /\ invocations[1].returncode # 0

\* C2: for n > 0 and d > 0 the fallback issues exactly n timestamps, the
\* k-th (from 0) being k * (d / n): the first 0, strictly increasing,
\* spaced by d / n; the k-th is written to the file of index k + 1.
C2_FallbackSchedule ==
    LET runs == FallbackRuns IN
    (args.N > 0 /\ duration > 0) =>
        /\ \A k \in 1 .. Len(runs) :
              LET t == TimestampOf(runs[k]) IN
              /\ RatEq(t, Rat((k - 1) * duration, args.N))
              /\ runs[k].cmd.out = k
              /\ k = 1 => t.num = 0
              /\ k > 1 =>
                    LET before == TimestampOf(runs[k - 1]) IN
                    /\ RatLt(before, t)
                    /\ RatEq(RatSub(t, before), Rat(duration, args.N))
        /\ FallbackDone => Len(runs) = args.N

\* d = 10, n = 5: the timestamps 0, 2, 4, 6, 8
C2_Witness ==
    /\ FallbackDone
    /\ args.N = 5
    /\ duration = 10
    /\ Len(FallbackRuns) = 5
    /\ \A k \in 1 .. 5 : RatEq(TimestampOf(FallbackRuns[k]), Rat(2 * (k - 1), 1))

\* C3: a failure on one file never stops the batch: unless the user aborts,
\* the run ends only when no video file of the listing is left unprocessed.
C3_FailureNeverStopsBatch ==
    /\ pc = "done" => queue = << >>
    /\ pc = "crashed" => \A k \in 2 .. Len(queue) : ~IsVideo(queue[k])

\* C4: with a frame count of 0 and no positive interval, no division by the
\* count is performed and no arithmetic error is raised.
C4_ZeroCountAllFrames ==
    (args.N = 0 /\ args.T <= 0) => fault # "ZeroDivisionError"

\* C5: when the probed duration is 0 and the count is positive, the file is
\* skipped: no per-timestamp decode invocation is issued for it.
C5_ZeroDurationSkipsFile ==
    (args.N > 0 /\ nFallback = 1 /\ pc \in {"fb_loop", "returned"} /\ duration = 0)
        => Len(FallbackRuns) = 0

\* C6: when both -N and -T are given on the command line, whatever their
\* values, main stops before process_folder is called.
C6_BothGivenRejected ==
    [][(pc = "main" /\ Given(argv, "-N") /\ Given(argv, "-T")) => pc' # "folder"]_vars

\* C7, as stated: after the fallback has run, the frame files it wrote are
\* numbered 1..k without a gap, k being the number of invocations that succeeded.
C7_ContiguousFromOne ==
    FallbackDone => frames = 1 .. Cardinality(frames)

\* C7, amended: the fallback writes the file of index k exactly when the
\* invocation for the k-th timestamp (from 1) succeeded; the indices lie in
\* 1..n and have a gap wherever an invocation failed.
C7_IndexPerTimestamp ==
    LET runs == FallbackRuns IN
    /\ frames \subseteq 1 .. Len(runs)
    /\ \A k \in 1 .. Len(runs) : k \in frames <=> runs[k].returncode = 0

C7_Witness ==
    /\ FallbackDone
    /\ FallbackRuns[1].returncode # 0
    /\ 1 \notin frames
    /\ 2 \in frames

\* C8: under an interval policy the fallback extracts ceil(duration /
\* time_interval) frames, a count derived from the interval.
C8_FallbackCountFromInterval ==
    (args.T > 0 /\ FallbackDone) => Len(FallbackRuns) = CeilDiv(duration, args.T)

\* C9, as stated: the output directory process_file chooses never names a
\* path that exists when it is chosen.
C9_OutputDirNeverExists ==
    pc = "extract" => output_dir \notin fs

\* C9, amended: without -D, the output directory chosen does not exist when
\* it is chosen; it is <stem>_frames or, when that exists, the one with the
\* least suffix _1, _2, ... that does not exist.
C9_FramesFolderUnused ==
    (pc = "extract" /\ ~args.D) =>
        /\ output_dir \notin fs
        /\ output_dir = FramesDir(Head(queue).stem, output_dir.n)
        /\ \A n \in 0 .. output_dir.n - 1 : FramesDir(Head(queue).stem, n) \in fs

\* foo_frames and foo_frames_1 exist: foo_frames_2 is chosen
C9_Witness ==
    /\ pc = "extract"
    /\ ~args.D
    /\ {FramesDir("foo", 0), FramesDir("foo", 1)} \subseteq fs
    /\ output_dir = FramesDir("foo", 2)

\* the directive the claim gives for (width, height)
C10_Directive(width, height) ==
    CASE width = 0 /\ height = 0 -> << >>
      [] width > 0 /\ height = 0 -> << Filter("scale", width, -1) >>
      [] width = 0 /\ height > 0 -> << Filter("scale", -1, height) >>
      [] width > 0 /\ height > 0 -> << Filter("scale", width, height) >>

\* the filters of a command that sample: fps, or select and setpts
C10_Sampling(run) == IF IsFast(run) THEN 1 ELSE 2

\* C10: the scaling directive is none, W:-1, -1:H or W:H by the signs of
\* width and height; both paths build the same one, and in every command
\* it follows the sampling filter.
C10_ScaleDirective ==
    LET directive == C10_Directive(args.X, args.Y) IN
    /\ ScaleFast(args.X, args.Y) = ScaleFallback(args.X, args.Y)
    /\ \A k \in 1 .. Len(invocations) :
          LET vf == invocations[k].cmd.vf
              s == C10_Sampling(invocations[k]) IN
          /\ Len(vf) >= s
          /\ \A j \in 1 .. s : vf[j].name # "scale"
          /\ SubSeq(vf, s + 1, Len(vf)) = directive

C10_Witness ==
    /\ args.X > 0
    /\ args.Y = 0
    /\ Len(invocations) >= 2
    /\ invocations[1].cmd.vf = << Filter("fps", 10, 5), Filter("scale", args.X, -1) >>
    /\ invocations[2].cmd.vf[3] = Filter("scale", args.X, -1)

====
